---------------------------- MODULE Spec2Model ----------------------------
(***************************************************************************)
(* Model of panoptes/scheduler.py: the Target / Observation data model,    *)
(* the duration estimates, the observable merit function and the           *)
(* Scheduler (read_target_list, get_target).                               *)
(*                                                                         *)
(* Times are integers counted in ticks of 1/TicksPerSecond second, so that *)
(* fractional exposure times (YAML floats) and int() truncation are        *)
(* represented.  Priorities, weights and merit values are integers.        *)
(***************************************************************************)
EXTENDS Integers, Sequences, FiniteSets, TLC

VARIABLES
    \* ---- Scheduler object and the catalog file it reads
    target_list_file,   \* contents of the catalog source, or NoFile
    list_of_targets,    \* Scheduler.list_of_targets (NoneList or a list)
    \* ---- one call of read_target_list made by a caller
    lpc, l_yaml, l_targets, l_err,
    \* ---- one call of get_target
    gpc, g_list, g_i, weights, order, evals, merits, merit_bound,
    chosen, error,
    \* ---- one construction Target(dict)
    cpc, raw, built,
    \* ---- one evaluation of the duration estimates and of observable()
    dpc, d_target, d_overhead, d_horizon, d_duration, d_merit, d_samples

schedVars == <<target_list_file, list_of_targets, lpc, l_yaml, l_targets, l_err,
               gpc, g_list, g_i, weights, order, evals, merits, merit_bound,
               chosen, error>>
ctorVars  == <<cpc, raw, built>>
durVars   == <<dpc, d_target, d_overhead, d_horizon, d_duration, d_merit, d_samples>>
vars      == <<schedVars, ctorVars, durVars>>

---------------------------------------------------------------------------
(* Bounds of the model *)

MaxTargets == 2      \* longest catalog
MaxVisit == 2        \* most observations in a visit
MaxNexp == 2         \* largest exposure count drawn
MaxOverhead == 1     \* largest overhead drawn, in seconds
MaxWeight == 2       \* largest weight drawn

(* Program constants *)

TicksPerSecond == 2
time_step == 30
DefaultExptime == 120
DefaultNexp == 1
DefaultPriority == 1
DefaultObstime == 2000

---------------------------------------------------------------------------
(* YAML values.  A dictionary field holds a number, a string, or is absent *)
(* (the key is not in the dict).                                           *)

Num(n) == [tag |-> "num", n |-> n, s |-> ""]
Str(s) == [tag |-> "str", n |-> 0, s |-> s]
Absent == [tag |-> "absent", n |-> 0, s |-> ""]

Ok(v)    == [ok |-> TRUE, val |-> v]
Raise    == [ok |-> FALSE, val |-> 0]

\* float(x) / int(x) on a YAML value: a number is taken as is, a string is
\* parsed, an absent key raises KeyError, an unparseable string ValueError.
ParseNumber(v) ==
    CASE v.tag = "num" -> Ok(v.n)
      [] v.tag = "str" /\ v.s = "1" -> Ok(1)
      [] v.tag = "str" /\ v.s = "2" -> Ok(2)
      [] v.tag = "str" /\ v.s = "3" -> Ok(3)
      [] OTHER -> Raise

\* try: X = <expr> / except: X = <default>
OrDefault(r, default) == IF r.ok THEN r.val ELSE default


---------------------------------------------------------------------------
(* Observation.__init__ *)

\* dict[key] * u.s : a number becomes a time, anything else raises.
\* Numbers read for exposure times are counted in ticks.
TimesSeconds(v) == IF v.tag = "num" THEN Ok(v.n) ELSE Raise

NoFilter == [some |-> FALSE, val |-> 0]
FilterOf(v) == LET r == ParseNumber(v)
               IN  IF r.ok THEN [some |-> TRUE, val |-> r.val] ELSE NoFilter

TruthyTokens == {"True", "true", "Yes", "yes", "Y", "y", "T", "t"}

Observation(dict) ==
    [ master_exptime |-> OrDefault(TimesSeconds(dict.master_exptime),
                                   DefaultExptime * TicksPerSecond),
      master_nexp    |-> OrDefault(ParseNumber(dict.master_nexp), DefaultNexp),
      master_filter  |-> FilterOf(dict.master_filter),
      \* the analysis flag is read from the master_filter key
      analyze        |-> dict.master_filter.tag = "str"
                         /\ dict.master_filter.s \in TruthyTokens,
      slave_exptime  |-> OrDefault(TimesSeconds(dict.slave_exptime),
                                   DefaultExptime * TicksPerSecond),
      slave_nexp     |-> OrDefault(ParseNumber(dict.slave_nexp), DefaultNexp),
      slave_filter   |-> FilterOf(dict.slave_filter) ]

---------------------------------------------------------------------------
(* Target.__init__ *)

\* SkyCoord(dict['position'], dict['frame']): the external parser accepts a
\* coordinate string in a known frame; a missing key raises KeyError.
GoodCoords == "14h50m42s -23d10m17s"
SkyCoord(position, frame) ==
    IF position.tag = "str" /\ position.s = GoodCoords
       /\ frame.tag = "str" /\ frame.s = "icrs"
    THEN Ok(position.s) ELSE Raise

\* (dict['proper_motion'].split()[0], dict['proper_motion'].split()[1])
SplitPair(v) ==
    CASE v.tag = "str" /\ v.s = "0.1 0.2" -> Ok(<<"0.1", "0.2">>)
      [] v.tag = "str" /\ v.s = "3 4 5"   -> Ok(<<"3", "4">>)
      [] OTHER -> Raise          \* one word: IndexError; not a string: AttributeError

NoTarget == [name |-> "", priority |-> 0,
             position |-> [coords |-> "", equinox |-> Absent, obstime |-> 0],
             proper_motion |-> <<"", "">>, visit |-> <<>>]

Failed(kind) == [ok |-> FALSE, err |-> kind, target |-> NoTarget]

\* What construction raises
ErrName     == "AssertionError"
ErrEquinox  == "AttributeError: 'NoneType' object has no attribute 'equinox'"
ErrVisit    == "KeyError: 'visit'"

RECURSIVE Observations(_)
Observations(obs_list) ==
    IF obs_list = <<>> THEN <<>>
    ELSE <<Observation(Head(obs_list))>> \o Observations(Tail(obs_list))

\* The position block: position, then equinox and obstime set on it.  When
\* SkyCoord raised, self.position is None and both the try body and the
\* except handler of the equinox block dereference None: the handler's
\* AttributeError is not caught.
PositionOf(dict) ==
    LET p == SkyCoord(dict.position, dict.frame)
    IN  IF ~p.ok THEN Raise
        ELSE Ok([coords  |-> p.val,
                 equinox |-> IF dict.equinox.tag = "absent"
                             THEN Str("J2000") ELSE dict.equinox,
                 obstime |-> OrDefault(ParseNumber(dict.epoch), DefaultObstime)])

Target(dict) ==
    IF dict.name.tag = "absent" THEN Failed(ErrName)
    ELSE IF dict.name.tag # "str" THEN Failed(ErrName)
    ELSE LET pos == PositionOf(dict)
         IN  IF ~pos.ok THEN Failed(ErrEquinox)
             ELSE IF ~dict.visit.has THEN Failed(ErrVisit)
             ELSE [ok |-> TRUE, err |-> "",
                   target |->
                     [name          |-> dict.name.s,
                      priority      |-> OrDefault(ParseNumber(dict.priority),
                                                  DefaultPriority),
                      position      |-> pos.val,
                      proper_motion |-> OrDefault(SplitPair(dict.proper_motion),
                                                  <<"0.0", "0.0">>),
                      visit         |-> Observations(dict.visit.obs)]]

---------------------------------------------------------------------------
(* Observation.estimate_duration, Target.estimate_visit_duration *)

Max2(a, b) == IF a >= b THEN a ELSE b

\* overhead is given in ticks
estimate_duration(obs, overhead) ==
    Max2((obs.master_exptime + overhead) * obs.master_nexp,
         (obs.slave_exptime + overhead) * obs.slave_nexp)

\* (variant: the overhead is passed on to estimate_duration)
VisitTermPassingOverhead(obs, overhead) ==
    estimate_duration(obs, overhead) + overhead

\* duration += obs.estimate_duration() + overhead : estimate_duration is
\* called without its argument, so it runs with its default overhead of 0.
VisitTerm(obs, overhead) == estimate_duration(obs, 0) + overhead

RECURSIVE SumVisit(_, _)
SumVisit(visit, overhead) ==
    IF visit = <<>> THEN 0
    ELSE VisitTerm(Head(visit), overhead) + SumVisit(Tail(visit), overhead)

estimate_visit_duration(target, overhead) == SumVisit(target.visit, overhead)

---------------------------------------------------------------------------
(* observable(target, observatory) *)

\* int(x) of a float: truncation toward zero; the argument is in ticks and
\* the result in whole seconds.
IntSeconds(ticks) ==
    IF ticks >= 0 THEN ticks \div TicksPerSecond
    ELSE -((-ticks) \div TicksPerSecond)

\* np.arange(0, stop, step): 0, step, 2*step, ... strictly below stop
RECURSIVE ArangeFrom(_, _, _)
ArangeFrom(start, stop, step) ==
    IF start >= stop THEN <<>>
    ELSE <<start>> \o ArangeFrom(start + step, stop, step)

SampleOffsets(target) ==
    ArangeFrom(0, IntSeconds(estimate_visit_duration(target, 0)) + time_step,
               time_step)

\* horizon: the observatory's horizon test at each sampled offset (the
\* ephemeris and the horizon profile are external); TRUE means observable.
\* Returns 1, or 0 for the falsy result False.
RECURSIVE ScanSamples(_, _)
ScanSamples(offsets, horizon) ==
    IF offsets = <<>> THEN 1
    ELSE IF ~horizon[Head(offsets)] THEN 0
    ELSE ScanSamples(Tail(offsets), horizon)

observable(target, horizon) == ScanSamples(SampleOffsets(target), horizon)

---------------------------------------------------------------------------
(* The catalog source *)

DefaultObsDict == [master_exptime |-> Absent, master_nexp |-> Absent,
                   master_filter |-> Absent, slave_exptime |-> Absent,
                   slave_nexp |-> Absent, slave_filter |-> Absent]

RawRecord(name, priority, position) ==
    [name |-> name, priority |-> priority, position |-> position,
     frame |-> Str("icrs"), equinox |-> Absent, epoch |-> Absent,
     proper_motion |-> Absent,
     visit |-> [has |-> TRUE, obs |-> <<DefaultObsDict>>]]

\* Raw records a catalog is made of: two well-formed ones (priorities 2 and,
\* by default, 1) and one whose position is missing.
RecA   == RawRecord(Str("A"), Num(2), Str(GoodCoords))
RecB   == RawRecord(Str("B"), Absent, Str(GoodCoords))
RecBad == RawRecord(Str("C"), Num(3), Absent)
RecordPool == {RecA, RecB, RecBad}

SeqsUpTo(S, n) == UNION {[1..k -> S] : k \in 0..n}

\* Scheduler(target_list_file=None): no file, or a file holding an ordered
\* sequence of raw records.
NoFile == [exists |-> FALSE, records |-> <<>>]
File(records) == [exists |-> TRUE, records |-> records]
Catalogs == {File(c) : c \in SeqsUpTo(RecordPool, MaxTargets)}

NoneList == [some |-> FALSE, items |-> <<>>]
List(items) == [some |-> TRUE, items |-> items]

\* Python truthiness of self.list_of_targets
Truthy(list) == list.some /\ list.items # <<>>

---------------------------------------------------------------------------
(* Scheduler.read_target_list *)

\* for target_dict in yaml_list: targets.append(Target(target_dict))
RECURSIVE BuildTargets(_, _)
BuildTargets(yaml_list, targets) ==
    IF yaml_list = <<>> THEN [ok |-> TRUE, err |-> "", items |-> targets]
    ELSE LET t == Target(Head(yaml_list))
         IN  IF ~t.ok THEN [ok |-> FALSE, err |-> t.err, items |-> <<>>]
             ELSE BuildTargets(Tail(yaml_list), Append(targets, t.target))

ErrOpen == "TypeError: open(None)"

\* The whole call: open the file (open(None) raises), read it, build the
\* local list.  The caller assigns self.list_of_targets only when ok.
read_target_list(file) ==
    IF ~file.exists THEN [ok |-> FALSE, err |-> ErrOpen, items |-> <<>>]
    ELSE BuildTargets(file.records, <<>>)

\* (variant: the loop appends to self.list_of_targets itself)
PublishedPartial(current, partial) == List(partial)

\* What a step of the loop makes visible in self.list_of_targets: nothing,
\* the list is local until the final assignment.
PublishedDuringLoad(current, partial) == current

\* The call as steps, for a caller running beside get_target.  l_yaml is
\* the list read from the file, l_targets the local list built so far.
RL_Begin ==
    /\ lpc = "idle"
    /\ IF target_list_file.exists
       THEN /\ lpc' = "loop"
            /\ l_yaml' = target_list_file.records
            /\ l_err' = ""
       ELSE /\ lpc' = "idle"
            /\ l_yaml' = <<>>
            /\ l_err' = ErrOpen
    /\ l_targets' = <<>>
    /\ UNCHANGED <<target_list_file, list_of_targets>>

RL_Record ==
    /\ lpc = "loop"
    /\ Len(l_targets) < Len(l_yaml)
    /\ LET t == Target(l_yaml[Len(l_targets) + 1])
       IN  IF t.ok
           THEN /\ l_targets' = Append(l_targets, t.target)
                /\ list_of_targets' =
                       PublishedDuringLoad(list_of_targets, l_targets')
                /\ UNCHANGED <<lpc, l_err, l_yaml>>
           ELSE /\ lpc' = "idle"
                /\ l_err' = t.err
                /\ l_yaml' = <<>>
                /\ l_targets' = <<>>
                /\ UNCHANGED list_of_targets
    /\ UNCHANGED target_list_file

RL_Commit ==
    /\ lpc = "loop"
    /\ Len(l_targets) = Len(l_yaml)
    /\ list_of_targets' = List(l_targets)
    /\ lpc' = "idle"
    /\ l_targets' = <<>>
    /\ l_yaml' = <<>>
    /\ UNCHANGED <<target_list_file, l_err>>

\* The call made between two get_target calls, start to end.
ReadTargetList ==
    /\ lpc = "idle"
    /\ LET r == read_target_list(target_list_file)
       IN  /\ l_err' = r.err
           /\ list_of_targets' = IF r.ok THEN List(r.items) ELSE list_of_targets
    /\ UNCHANGED <<target_list_file, lpc, l_yaml, l_targets>>

\* Catalogs the file is rewritten to while a load may be running: k records
\* alternating from RecA or from RecB, or k-1 good records and a bad one.
Alternating(first, second, k) ==
    [i \in 1..k |-> IF i % 2 = 1 THEN first ELSE second]
EditedCatalogs ==
    {File(Alternating(RecA, RecB, k)) : k \in 0..MaxTargets}
    \cup {File(Alternating(RecB, RecA, k)) : k \in 1..MaxTargets}
    \cup {File([Alternating(RecA, RecB, k) EXCEPT ![k] = RecBad]) : k \in 1..MaxTargets}

\* The catalog file is rewritten by its owner.
EditCatalog ==
    /\ \E f \in EditedCatalogs : f # target_list_file /\ target_list_file' = f
    /\ UNCHANGED <<list_of_targets, lpc, l_yaml, l_targets, l_err>>

loadVars == <<target_list_file, lpc, l_yaml, l_targets, l_err>>

---------------------------------------------------------------------------
(* Scheduler.get_target *)

\* The merit functions of the module namespace: the built-in observable,
\* which returns 1 or False, and one registered beside it.  "nosuch" names
\* no function.  0 stands for every falsy result (False, None, 0).
Registry == {"observable", "moon"}
Terms == Registry \cup {"nosuch"}
MeritValues(term) == IF term = "observable" THEN {0, 1} ELSE {0, 2}

\* The weights arguments: any mapping from names to numbers (the code does
\* not check their sign).
WeightValues(term) == IF term \in Registry THEN (-1)..MaxWeight ELSE {1}

AllWeights ==
    UNION {{w \in [K -> (-1)..MaxWeight] : \A t \in K : w[t] \in WeightValues(t)}
           : K \in SUBSET Terms}
DefaultWeights == [t \in {"observable"} |-> 1]

\* weights.keys(): some order of the keys, fixed for the call
KeyOrders(w) ==
    LET K == DOMAIN w
    IN  {o \in [1..Cardinality(K) -> K] : \A t \in K : \E i \in DOMAIN o : o[i] = t}

\* The merit results of one target, for the registered keys of weights
Results(w) ==
    LET K == DOMAIN w \cap Registry
    IN  {r \in [K -> 0..2] : \A t \in K : r[t] \in MeritValues(t)}

\* (variant: vetoed = not merit_value, so a later passing term lifts a veto)
TermStepLastWins(st, weight, merit_value) ==
    IF merit_value # 0
    THEN [st EXCEPT !.target_merit = @ + weight * merit_value,
                    !.vetoed = FALSE, !.bound = TRUE]
    ELSE [st EXCEPT !.vetoed = TRUE, !.bound = TRUE]

\* if merit_value and not vetoed: target_merit += weights[term]*merit_value
\* else: vetoed = True
TermStep(st, weight, merit_value) ==
    IF merit_value # 0 /\ ~st.vetoed
    THEN [st EXCEPT !.target_merit = @ + weight * merit_value, !.bound = TRUE]
    ELSE [st EXCEPT !.vetoed = TRUE, !.bound = TRUE]

\* for term in weights.keys(): ...   getattr raises on an unknown name
RECURSIVE TermLoop(_, _, _, _)
TermLoop(keys, w, res, st) ==
    IF keys = <<>> THEN st
    ELSE IF Head(keys) \notin Registry THEN [st EXCEPT !.raised = TRUE]
    ELSE TermLoop(Tail(keys), w, res, TermStep(st, w[Head(keys)], res[Head(keys)]))

\* vetoed = False; target_merit = 0.0; merit_value keeps its binding from
\* the previous target
TargetStart(was_bound) ==
    [vetoed |-> FALSE, target_merit |-> 0, bound |-> was_bound, raised |-> FALSE]

\* (variant: the priority is left out of the score)
ScoreWithoutPriority(priority, target_merit) == target_merit

\* merits.append((target.priority*target_merit, target))
Score(priority, target_merit) == priority * target_merit

\* sorted(merits)[-1][1].  Tuples are compared by score first and, on equal
\* scores, by the Target objects, which define no ordering: the comparison
\* raises TypeError (Python 3) or orders by object address (Python 2), so
\* any top-scored entry may come last.
\* (variant: no len(merits) > 0 test before sorted(merits)[-1])
SelectUnguarded(ms) ==
    IF ms = <<>> THEN {[raised |-> TRUE, chosen |-> 0]}
    ELSE {[raised |-> FALSE, chosen |-> ms[i].idx]
             : i \in {k \in DOMAIN ms : \A j \in DOMAIN ms : ms[j].score <= ms[k].score}}

HasTie(ms) == \E i, j \in DOMAIN ms : i # j /\ ms[i].score = ms[j].score
TopEntries(ms) == {i \in DOMAIN ms : \A j \in DOMAIN ms : ms[j].score <= ms[i].score}
SelectOutcomes(ms) ==
    IF ms = <<>> THEN {[raised |-> FALSE, chosen |-> 0]}
    ELSE IF HasTie(ms)
    THEN {[raised |-> TRUE, chosen |-> 0]}
         \cup {[raised |-> FALSE, chosen |-> ms[i].idx] : i \in TopEntries(ms)}
    ELSE {[raised |-> FALSE, chosen |-> ms[i].idx] : i \in TopEntries(ms)}

\* What the call raises after the load
ErrNoMerit     == "AttributeError: module has no attribute"
ErrUnbound     == "UnboundLocalError: merit_value"
ErrUnorderable == "TypeError: unorderable types: Target() < Target()"

callVars == <<gpc, g_list, g_i, weights, order, evals, merits, merit_bound,
              chosen, error>>

\* Entry: the lazy load, then the loop set-up.  W is the set of weights
\* arguments callers pass.
GT_Begin(W) ==
    /\ gpc = "idle"
    /\ \E w \in W : \E o \in KeyOrders(w) :
         /\ weights' = w
         /\ order' = o
    /\ g_i' = 1
    /\ evals' = <<>>
    /\ merits' = <<>>
    /\ merit_bound' = FALSE
    /\ chosen' = 0
    /\ IF Truthy(list_of_targets)
       THEN /\ gpc' = "loop"
            /\ error' = ""
            /\ g_list' = list_of_targets.items
            /\ UNCHANGED list_of_targets
       ELSE LET r == read_target_list(target_list_file)
            IN  IF r.ok
                THEN /\ gpc' = "loop"
                     /\ error' = ""
                     /\ list_of_targets' = List(r.items)
                     /\ g_list' = r.items
                ELSE /\ gpc' = "raised"
                     /\ error' = r.err
                     /\ g_list' = <<>>
                     /\ UNCHANGED list_of_targets
    /\ UNCHANGED loadVars

\* One pass of the loop over the targets
GT_Target ==
    /\ gpc = "loop"
    /\ g_i <= Len(g_list)
    /\ \E res \in Results(weights) :
         LET st == TermLoop(order, weights, res, TargetStart(merit_bound))
             target == g_list[g_i]
         IN  /\ evals' = Append(evals, res)
             /\ IF st.raised
                THEN /\ gpc' = "raised"
                     /\ error' = ErrNoMerit
                     /\ UNCHANGED <<merits, merit_bound, g_i>>
                ELSE /\ merits' = IF ~st.vetoed
                                  THEN Append(merits,
                                         [score |-> Score(target.priority, st.target_merit),
                                          idx |-> g_i])
                                  ELSE merits
                     /\ merit_bound' = st.bound
                     \* logger.debug(... merit_value): unbound when no term ran
                     /\ IF st.bound
                        THEN /\ g_i' = g_i + 1
                             /\ UNCHANGED <<gpc, error>>
                        ELSE /\ gpc' = "raised"
                             /\ error' = ErrUnbound
                             /\ UNCHANGED g_i
    /\ UNCHANGED <<g_list, weights, order, chosen, list_of_targets>>
    /\ UNCHANGED loadVars

\* After the loop: choose or return None
GT_Select ==
    /\ gpc = "loop"
    /\ g_i > Len(g_list)
    /\ \E o \in SelectOutcomes(merits) :
         /\ chosen' = o.chosen
         /\ gpc' = IF o.raised THEN "raised" ELSE "returned"
         /\ error' = IF o.raised THEN ErrUnorderable ELSE ""
    /\ UNCHANGED <<g_list, g_i, weights, order, evals, merits, merit_bound,
                   list_of_targets>>
    /\ UNCHANGED loadVars

\* The call has ended (return chosen / return None / an exception left it):
\* the caller takes the outcome and the frame is gone.
GT_Return ==
    /\ gpc \in {"returned", "raised"}
    /\ gpc' = "idle"
    /\ g_list' = <<>> /\ g_i' = 1
    /\ weights' = DefaultWeights /\ order' = <<"observable">>
    /\ evals' = <<>> /\ merits' = <<>> /\ merit_bound' = FALSE
    /\ chosen' = 0 /\ error' = ""
    /\ UNCHANGED list_of_targets
    /\ UNCHANGED loadVars

---------------------------------------------------------------------------
(* One construction Target(dict) *)

ObsDicts ==
    [master_exptime : {Absent, Num(60 * TicksPerSecond)},
     master_nexp    : {Absent, Str("3"), Str("many")},
     master_filter  : {Absent, Str("yes")},
     slave_exptime  : {Absent},
     slave_nexp     : {Num(2)},
     slave_filter   : {Str("1")}]

NoVisit == [has |-> FALSE, obs |-> <<>>]

RawRecords ==
    [name          : {Str("A"), Num(7), Absent},
     priority      : {Num(2), Str("3"), Str("high"), Absent},
     position      : {Str(GoodCoords), Str("garbage"), Absent},
     frame         : {Str("icrs"), Absent},
     equinox       : {Absent, Str("J2015")},
     epoch         : {Absent, Num(2015)},
     proper_motion : {Absent, Str("0.1 0.2"), Num(5)},
     visit         : {NoVisit}
                     \cup {[has |-> TRUE, obs |-> v] : v \in SeqsUpTo(ObsDicts, 1)}]

Construct ==
    /\ cpc = "new"
    /\ built' = Target(raw)
    /\ cpc' = "built"
    /\ UNCHANGED raw

---------------------------------------------------------------------------
(* One evaluation of the duration estimates and of observable() *)

ExptimeChoices == {Absent, Num(30 * TicksPerSecond), Num(60 * TicksPerSecond + 1)}

DurationObsDicts ==
    [master_exptime : ExptimeChoices,
     master_nexp    : {Num(n) : n \in 1..MaxNexp},
     master_filter  : {Absent},
     slave_exptime  : {Absent, Num(10 * TicksPerSecond)},
     slave_nexp     : {Absent},
     slave_filter   : {Absent}]

DurationTargets ==
    {Target([RecA EXCEPT !.visit = [has |-> TRUE, obs |-> v]]).target
       : v \in SeqsUpTo(DurationObsDicts, MaxVisit)}

Overheads == {o * TicksPerSecond : o \in 0..MaxOverhead}

\* The instants, in seconds from now, at which the horizon test is defined
\* in the model: every half time step up to past the longest visit.
LongestVisit == MaxVisit * MaxNexp * DefaultExptime
Instants == {k * (time_step \div 2) : k \in 0..(2 * (LongestVisit \div time_step) + 3)}

\* Horizon profiles: observable everywhere but at no or at one instant.
Horizons == {[o \in Instants |-> o # bad] : bad \in Instants \cup {-1}}
ClearHorizon == [o \in Instants |-> TRUE]

EstimateVisit ==
    /\ dpc = "new"
    /\ d_duration' = estimate_visit_duration(d_target, d_overhead)
    /\ dpc' = "estimated"
    /\ UNCHANGED <<d_target, d_overhead, d_horizon, d_merit, d_samples>>

Observable ==
    /\ dpc = "new"
    /\ d_samples' = SampleOffsets(d_target)
    /\ d_merit' = observable(d_target, d_horizon)
    /\ d_duration' = estimate_visit_duration(d_target, 0)
    /\ dpc' = "evaluated"
    /\ UNCHANGED <<d_target, d_overhead, d_horizon>>

---------------------------------------------------------------------------
(* Specifications *)

SchedIdle ==
    /\ list_of_targets = NoneList
    /\ lpc = "idle" /\ l_yaml = <<>> /\ l_targets = <<>> /\ l_err = ""
    /\ gpc = "idle" /\ g_list = <<>> /\ g_i = 1
    /\ weights = DefaultWeights /\ order = <<"observable">>
    /\ evals = <<>> /\ merits = <<>> /\ merit_bound = FALSE
    /\ chosen = 0 /\ error = ""
CtorIdle == cpc = "new" /\ raw = RecA /\ built = Failed("")
DurIdle ==
    /\ dpc = "new" /\ d_target = Target(RecA).target /\ d_overhead = 0
    /\ d_horizon = ClearHorizon /\ d_duration = 0 /\ d_merit = 0
    /\ d_samples = <<>>

\* The scheduler used by one caller: get_target and read_target_list calls,
\* one after the other, on a catalog file that stays as it is.
Init ==
    /\ target_list_file \in Catalogs \cup {NoFile}
    /\ SchedIdle /\ CtorIdle /\ DurIdle

Next ==
    \/ (GT_Begin(AllWeights) /\ UNCHANGED <<ctorVars, durVars>>)
    \/ (GT_Target /\ UNCHANGED <<ctorVars, durVars>>)
    \/ (GT_Select /\ UNCHANGED <<ctorVars, durVars>>)
    \/ (GT_Return /\ UNCHANGED <<ctorVars, durVars>>)
    \/ (gpc = "idle" /\ ReadTargetList /\ UNCHANGED <<callVars, ctorVars, durVars>>)

Spec == Init /\ [][Next]_vars

\* A reload running beside get_target calls with the default weights, on a
\* catalog file that is rewritten in between.
InitLoad ==
    /\ target_list_file \in EditedCatalogs \cup {NoFile}
    /\ SchedIdle /\ CtorIdle /\ DurIdle

NextLoad ==
    \/ (EditCatalog /\ UNCHANGED <<callVars, ctorVars, durVars>>)
    \/ (RL_Begin /\ UNCHANGED <<callVars, ctorVars, durVars>>)
    \/ (RL_Record /\ UNCHANGED <<callVars, ctorVars, durVars>>)
    \/ (RL_Commit /\ UNCHANGED <<callVars, ctorVars, durVars>>)
    \/ (GT_Begin({DefaultWeights}) /\ UNCHANGED <<ctorVars, durVars>>)
    \/ (GT_Target /\ UNCHANGED <<ctorVars, durVars>>)
    \/ (GT_Select /\ UNCHANGED <<ctorVars, durVars>>)
    \/ (GT_Return /\ UNCHANGED <<ctorVars, durVars>>)

SpecLoad == InitLoad /\ [][NextLoad]_vars

\* Target construction over raw records
InitTarget ==
    /\ target_list_file = NoFile /\ SchedIdle /\ DurIdle
    /\ cpc = "new" /\ raw \in RawRecords /\ built = Failed("")

NextTarget == Construct /\ UNCHANGED <<schedVars, durVars>>

SpecTarget == InitTarget /\ [][NextTarget]_vars

\* The duration estimates over visits and overheads
InitDuration ==
    /\ target_list_file = NoFile /\ SchedIdle /\ CtorIdle
    /\ dpc = "new" /\ d_target \in DurationTargets /\ d_overhead \in Overheads
    /\ d_horizon = ClearHorizon /\ d_duration = 0 /\ d_merit = 0
    /\ d_samples = <<>>

NextDuration == EstimateVisit /\ UNCHANGED <<schedVars, ctorVars>>

SpecDuration == InitDuration /\ [][NextDuration]_vars

\* observable() over visits and horizon profiles
InitObservable ==
    /\ target_list_file = NoFile /\ SchedIdle /\ CtorIdle
    /\ dpc = "new" /\ d_target \in DurationTargets /\ d_overhead = 0
    /\ d_horizon \in Horizons /\ d_duration = 0 /\ d_merit = 0
    /\ d_samples = <<>>

NextObservable == Observable /\ UNCHANGED <<schedVars, ctorVars>>

SpecObservable == InitObservable /\ [][NextObservable]_vars

---------------------------------------------------------------------------
(* Properties of get_target.  They are stated over the inputs of the call  *)
(* (the list iterated, the weights, the merit results drawn for each       *)
(* target) and its outcome, not over the loop's own accumulators.          *)

Ended == gpc \in {"returned", "raised"}
LoadErrors == {ErrOpen, ErrName, ErrEquinox, ErrVisit}
Loaded == error \notin LoadErrors
Candidates == 1..Len(g_list)
Evaluated == Len(evals) = Len(g_list)
KnownWeights == DOMAIN weights \subseteq Registry

RECURSIVE WeightedSum(_, _, _)
WeightedSum(K, w, r) ==
    IF K = {} THEN 0
    ELSE LET t == CHOOSE x \in K : TRUE
         IN  w[t] * r[t] + WeightedSum(K \ {t}, w, r)

\* a term named in weights returned a falsy result for candidate i
HasFalsyTerm(i) == \E t \in DOMAIN evals[i] : evals[i][t] = 0
MeritOf(i) == WeightedSum(DOMAIN evals[i], weights, evals[i])
ScoreOf(i) == g_list[i].priority * MeritOf(i)
NonVetoed == {i \in Candidates : ~HasFalsyTerm(i)}
Returned(i) == gpc = "returned" /\ chosen = i

\* two candidates with identical merit terms and priorities 2 and 1
PriorityPairs ==
    {p \in Candidates \X Candidates :
        /\ g_list[p[1]].priority = 2 /\ g_list[p[2]].priority = 1
        /\ evals[p[1]] = evals[p[2]]
        /\ ~HasFalsyTerm(p[1])}

\* C1 (as claimed): when get_target returns a target, its score
\* priority * sum(weight * result) is at least that of every non-vetoed
\* candidate, and of two candidates with identical merit terms and
\* priorities 2 and 1 the one with priority 2 is the one returned.
C1_Original ==
    (gpc = "returned" /\ chosen # 0) =>
        /\ \A u \in NonVetoed : ScoreOf(chosen) >= ScoreOf(u)
        /\ \A p \in PriorityPairs : chosen # p[2]

\* C1 (amended): the returned target has the maximum score among the
\* non-vetoed candidates; of two candidates with identical merit terms whose
\* weighted sum is positive and priorities 2 and 1, the one with priority 1
\* is not returned, and the one with priority 2 is when they are the only
\* candidates.
C1_MaxScore ==
    (gpc = "returned" /\ chosen # 0) =>
        /\ \A u \in NonVetoed : ScoreOf(chosen) >= ScoreOf(u)
        /\ \A p \in PriorityPairs :
              MeritOf(p[1]) > 0 =>
                 /\ chosen # p[2]
                 /\ (Len(g_list) = 2 => chosen = p[1])

C1_Witness ==
    /\ gpc = "returned" /\ Len(g_list) = 2
    /\ \E p \in PriorityPairs : MeritOf(p[1]) > 0 /\ chosen = p[1] /\ p[1] = 2
    /\ Cardinality(DOMAIN weights) = 2

\* C2: a target for which some term named in weights returned a falsy
\* result is never the target get_target returns, whatever its other terms,
\* the order of the terms and its priority.
C2_VetoedNeverChosen ==
    \A i \in 1..Len(evals) : HasFalsyTerm(i) => ~Returned(i)

\* a vetoed candidate of higher priority whose first term passed and whose
\* second failed, and another one whose first term failed: both passed over
C2_Witness ==
    /\ gpc = "returned" /\ chosen # 0 /\ Len(order) = 2
    /\ \E i \in Candidates :
          /\ evals[i][order[1]] # 0 /\ evals[i][order[2]] = 0
          /\ g_list[i].priority > g_list[chosen].priority
          /\ weights[order[1]] > 0

\* C3: get_target returns None without raising when the candidate list it
\* iterates is empty and when every candidate was vetoed.
C3_NoneWhenNothingObservable ==
    (/\ Ended /\ Loaded
     /\ \/ g_list = <<>>
        \/ KnownWeights /\ Evaluated /\ \A i \in Candidates : HasFalsyTerm(i))
    => (gpc = "returned" /\ chosen = 0 /\ error = "")

C3_Witness ==
    /\ gpc = "returned" /\ chosen = 0 /\ Len(g_list) = 2 /\ Evaluated
    /\ \A i \in Candidates : HasFalsyTerm(i)
    /\ \E i \in Candidates : \E t \in DOMAIN evals[i] : evals[i][t] # 0

\* the catalog source yields no records: the lazy load builds an empty list
C3_EmptyCatalogReached ==
    /\ gpc = "returned" /\ chosen = 0 /\ g_list = <<>>
    /\ target_list_file = File(<<>>) /\ list_of_targets = List(<<>>)

\* C4 (as claimed): whenever weights has a key naming no merit function,
\* the call fails with the registry error and selects no target, for every
\* candidate list, the empty one included.
C4_UnknownKeyFails ==
    (Ended /\ Loaded /\ ~KnownWeights) =>
        (gpc = "raised" /\ error = ErrNoMerit /\ chosen = 0)

\* C5 (as claimed): with empty weights every candidate is recorded with
\* score 0 and the call completes and returns one of the candidates when
\* the list is not empty.
C5_EmptyWeightsReturns ==
    (Ended /\ Loaded /\ DOMAIN weights = {} /\ g_list # <<>>) =>
        /\ gpc = "returned" /\ chosen \in Candidates
        /\ Len(merits) = Len(g_list)
        /\ \A k \in DOMAIN merits : merits[k].score = 0

\* C6 (as claimed): when two or more non-vetoed candidates share the
\* maximum score the call completes and returns one of them.
TopScored ==
    {i \in NonVetoed : \A u \in NonVetoed : ScoreOf(u) <= ScoreOf(i)}
C6_TieBreakDeterministic ==
    (Ended /\ Loaded /\ KnownWeights /\ DOMAIN weights # {} /\ Evaluated
       /\ Cardinality(TopScored) >= 2) =>
        /\ gpc = "returned"
        /\ chosen \in TopScored

---------------------------------------------------------------------------
(* Reload beside get_target *)

\* C7: the candidate list is replaced wholesale: self.list_of_targets only
\* ever changes to the complete list built from the catalog a load read
\* (never while a load is part-way or after one was interrupted), and the
\* list a get_target call iterates is the list that was visible when the
\* call took it.
C7_AtomicReplace ==
    [][ /\ (list_of_targets' # list_of_targets =>
              \/ /\ lpc = "loop" /\ lpc' = "idle"
                 /\ Len(l_targets) = Len(l_yaml)
                 /\ LET r == BuildTargets(l_yaml, <<>>)
                    IN  r.ok /\ list_of_targets' = List(r.items)
              \/ /\ gpc = "idle" /\ gpc' = "loop"
                 /\ LET r == BuildTargets(target_list_file.records, <<>>)
                    IN  r.ok /\ list_of_targets' = List(r.items))
        /\ (g_list' # g_list =>
              \/ gpc' = "loop" /\ g_list' = list_of_targets'.items
              \/ gpc' # "loop" /\ g_list' = <<>>)
      ]_vars

\* a load is part-way through a two-record catalog while a get_target call
\* is in its loop over an older list and a newer complete list is visible
C7_Witness ==
    /\ lpc = "loop" /\ Len(l_yaml) = 2 /\ Len(l_targets) = 1
    /\ gpc = "loop" /\ g_i = 2 /\ Len(g_list) = 2
    /\ Truthy(list_of_targets)
    /\ list_of_targets.items # g_list
    /\ list_of_targets.items # l_targets

\* a load was interrupted by a record that fails construction, after one
\* record was built, and the earlier complete list is still the visible one
C7_InterruptedReached ==
    /\ l_err = ErrEquinox /\ lpc = "idle" /\ Len(target_list_file.records) = 2
    /\ Truthy(list_of_targets) /\ gpc = "loop" /\ g_list = list_of_targets.items

---------------------------------------------------------------------------
(* Construction *)

\* C8 (as claimed): construction fails only if name is missing or not a
\* string or the visit list is absent; with a string name and a visit list
\* it succeeds whatever the other fields hold, a missing or unparseable
\* priority becoming 1.0.
C8_ConstructionTotal ==
    cpc = "built" =>
        /\ (built.ok <=> (raw.name.tag = "str" /\ raw.visit.has))
        /\ (built.ok /\ raw.priority \in {Absent, Str("high")}
               => built.target.priority = 1)

---------------------------------------------------------------------------
(* Durations *)

\* max((primary_exptime + o) * primary_count, (secondary_exptime + o) * secondary_count)
ClaimedObservationDuration(obs, o) ==
    LET primary   == (obs.master_exptime + o) * obs.master_nexp
        secondary == (obs.slave_exptime + o) * obs.slave_nexp
    IN  IF primary >= secondary THEN primary ELSE secondary

RECURSIVE ClaimedVisitSum(_, _, _)
ClaimedVisitSum(visit, per_exposure, per_observation) ==
    IF visit = <<>> THEN 0
    ELSE ClaimedObservationDuration(visit[1], per_exposure) + per_observation
         + ClaimedVisitSum(Tail(visit), per_exposure, per_observation)

\* C9 (as claimed): estimate_visit_duration(overhead) is the sum over the
\* visit of estimate_duration(overhead) + overhead: the overhead is charged
\* per exposure inside each observation and once more per observation.
C9_Original ==
    dpc = "estimated" =>
        d_duration = ClaimedVisitSum(d_target.visit, d_overhead, d_overhead)

\* C9 (amended): estimate_visit_duration(overhead) is the sum over the
\* visit of estimate_duration(0) + overhead: the overhead is charged once
\* per observation and not per exposure.
C9_OverheadPerObservation ==
    dpc = "estimated" =>
        d_duration = ClaimedVisitSum(d_target.visit, 0, d_overhead)

C9_Witness ==
    /\ dpc = "estimated" /\ d_overhead > 0 /\ Len(d_target.visit) = 2
    /\ d_target.visit[1].master_nexp = 2
    /\ d_target.visit[1].master_exptime * 2 > d_target.visit[1].slave_exptime
    /\ d_duration = ClaimedVisitSum(d_target.visit, 0, 0) + 2 * d_overhead

---------------------------------------------------------------------------
(* observable() *)

\* C10 (as claimed): the samples are at offsets 0, 30, 60, ... seconds, the
\* first at 0 and the last not before the end of the estimated visit
\* duration; the result is the veto exactly when the horizon test fails at
\* a sampled instant, and 1 otherwise.
C10_SamplesSpanVisit ==
    dpc = "evaluated" =>
        /\ d_samples # <<>>
        /\ \A k \in DOMAIN d_samples : d_samples[k] = time_step * (k - 1)
        /\ d_samples[Len(d_samples)] * TicksPerSecond >= d_duration
        /\ (d_merit = 0 <=> \E k \in DOMAIN d_samples : ~d_horizon[d_samples[k]])
        /\ d_merit \in {0, 1}

=============================================================================
